---- MODULE Spec2Model ----
(***************************************************************************)
(* Channel hierarchy, membership, privilege resolution and wire codec of   *)
(* soliloque-server (channel.c).  Channels and players are identified by   *)
(* their addresses, modelled as small positive integers; NULL is 0.        *)
(***************************************************************************)
EXTENDS Integers, Sequences, FiniteSets, TLC

(* ---------------------------------------------------------------- bounds *)
NumChans == 3
NumPrivChans == 2
NumMemberChans == 2
NumPlayers == 2
NumRegs == 1
MaxUsers == 2
MaxStrLen == 2
MaxTailLen == 5
NumDestroyChans == 2

(* ------------------------------------------------------------- constants *)
NULL == 0
CHANNEL_FLAG_UNREGISTERED == 1
CHANNEL_FLAG_PASSWORD == 4
CHANNEL_FLAG_SUBCHANNELS == 8
CHANNEL_FLAG_DEFAULT == 16
GLOBAL_FLAG_REGISTERED == 4
PL_CH_PRIV_REGISTERED == "PL_CH_PRIV_REGISTERED"
PL_CH_PRIV_UNREGISTERED == "PL_CH_PRIV_UNREGISTERED"
\* (size_t) -1, cut to the largest integer TLC represents; no array of
\* the model comes near either value.
SIZE_MAX == 2147483647

Chan == 1..NumChans
Player == 1..NumPlayers
Reg == 1..NumRegs

\* flag words new_channel is called with in the membership specification
MemberFlagChoices ==
    { 0, CHANNEL_FLAG_SUBCHANNELS, CHANNEL_FLAG_DEFAULT }

\* flag words new_channel is called with in the password specification
PassFlagChoices ==
    { 0,
      CHANNEL_FLAG_PASSWORD,
      CHANNEL_FLAG_SUBCHANNELS,
      CHANNEL_FLAG_SUBCHANNELS + CHANNEL_FLAG_PASSWORD }

\* flag words new_channel is called with in the hierarchy specification
FlagChoices ==
    { 0,
      CHANNEL_FLAG_SUBCHANNELS + CHANNEL_FLAG_UNREGISTERED,
      CHANNEL_FLAG_SUBCHANNELS + CHANNEL_FLAG_DEFAULT }

(* ----------------------------------------------------------------- state *)
VARIABLES
    nchans,          \* number of channels new_channel has allocated
    flags,           \* chan->flags
    max_slots,       \* chan->players->max_slots
    freed,           \* the channels destroy_channel has freed
    parent,          \* chan->parent
    subchannels,     \* chan->subchannels, in slot order
    players,         \* chan->players, in slot order
    pl_privileges,   \* chan->pl_privileges, in slot order
    in_chan,         \* pl->in_chan
    global_flags,    \* pl->global_flags
    reg,             \* pl->reg
    db_calls,        \* calls of db_add_pl_chan_priv, per owner channel
    last,            \* the last call and what it returned
    wire             \* the codec's channel, buffer and results

vars == << nchans, flags, max_slots, freed, parent, subchannels, players,
           pl_privileges, in_chan, global_flags, reg, db_calls, last, wire >>

chanVars == << nchans, flags, max_slots, freed >>
treeVars == << parent, subchannels >>
memberVars == << players, in_chan >>
playerVars == << global_flags, reg >>
privVars == << pl_privileges, db_calls >>

Live == 1..nchans

\* the channels allocated and not freed
Alive == Live \ freed

(* ------------------------------------------------------------- bit words *)
\* f & b # 0, for b a single bit
BitTest(f, b) == (f \div b) % 2 = 1
\* f & ~b, for b a single bit
BitClear(f, b) == IF BitTest(f, b) THEN f - b ELSE f

(* ------------------------------------------------------- array container *)
ar_insert(a, el) == Append(a, el)

RECURSIVE ar_remove(_, _)
ar_remove(a, el) ==
    IF a = << >> THEN << >>
    ELSE IF Head(a) = el THEN Tail(a)
    ELSE << Head(a) >> \o ar_remove(Tail(a), el)

\* does ar_insert return AR_OK on an array a of max_slots slots
ar_insert_ok(a, slots) == Len(a) < slots

ar_has(a, el) == \E i \in 1..Len(a) : a[i] = el

ar_count(a, el) == Cardinality({ i \in 1..Len(a) : a[i] = el })

\* the elements of the array a, whatever their slots
ar_set(a) == { a[i] : i \in 1..Len(a) }

\* was is the parent the child of a channel_add_subchannel call had before it
NoCall ==
    [ op |-> "none", ch |-> NULL, arg |-> NULL, ret |-> 0, priv |-> << NULL, 0 >>,
      was |-> NULL ]

Call(op, ch, arg, ret) == [ NoCall EXCEPT !.op = op, !.ch = ch, !.arg = arg, !.ret = ret ]

(* ------------------------------------------------------------ operations *)
new_channel(fl, max_users) ==
    /\ nchans < NumChans
    /\ nchans' = nchans + 1
    /\ flags' = [ flags EXCEPT ![nchans + 1] = fl ]
    /\ max_slots' = [ max_slots EXCEPT ![nchans + 1] = max_users ]
    /\ last' = Call("new_channel", nchans + 1, NULL, 1)
    /\ UNCHANGED << freed, treeVars, memberVars, playerVars, privVars, wire >>

ch_getflags(ch) ==
    IF parent[ch] = NULL
    THEN flags[ch]
    ELSE BitClear(BitClear(flags[parent[ch]], CHANNEL_FLAG_SUBCHANNELS),
                  CHANNEL_FLAG_DEFAULT)

\* channel_remove_subchannel without its first test: the child is taken from
\* ch whether or not ch is its parent
remove_subchannel_unchecked(ch, subchannel) ==
    IF ch = NULL
    THEN [ ret |-> 0, parent |-> parent, subchannels |-> subchannels ]
    ELSE [ ret |-> 1,
           parent |-> [ parent EXCEPT ![subchannel] = NULL ],
           subchannels |-> [ subchannels EXCEPT ![ch] = ar_remove(@, subchannel) ] ]

\* what channel_remove_subchannel(ch, subchannel) returns and leaves behind
remove_subchannel(ch, subchannel) ==
    IF ch # parent[subchannel]
    THEN [ ret |-> 0, parent |-> parent, subchannels |-> subchannels ]
    ELSE IF ch = NULL
    THEN [ ret |-> 0, parent |-> parent, subchannels |-> subchannels ]
    ELSE [ ret |-> 1,
           parent |-> [ parent EXCEPT ![subchannel] = NULL ],
           subchannels |-> [ subchannels EXCEPT ![ch] = ar_remove(@, subchannel) ] ]

channel_remove_subchannel(ch, subchannel) ==
    LET r == remove_subchannel(ch, subchannel) IN
    /\ parent' = r.parent
    /\ subchannels' = r.subchannels
    /\ last' = Call("channel_remove_subchannel", ch, subchannel, r.ret)
    /\ UNCHANGED << chanVars, memberVars, playerVars, privVars, wire >>

\* channel_add_subchannel with the parent's flag tested after the child has
\* been taken from its previous parent
add_subchannel_late_check(ch, subchannel) ==
    LET r == IF parent[subchannel] # NULL
             THEN remove_subchannel(parent[subchannel], subchannel)
             ELSE [ ret |-> 0, parent |-> parent, subchannels |-> subchannels ]
    IN  IF ~BitTest(ch_getflags(ch), CHANNEL_FLAG_SUBCHANNELS)
        THEN [ ret |-> 0, parent |-> r.parent, subchannels |-> r.subchannels ]
        ELSE [ ret |-> 1,
               parent |-> [ r.parent EXCEPT ![subchannel] = ch ],
               subchannels |-> [ r.subchannels EXCEPT ![ch] = ar_insert(@, subchannel) ] ]

\* channel_add_subchannel without the call that takes the child from its
\* previous parent
add_subchannel_no_detach(ch, subchannel) ==
    IF ~BitTest(ch_getflags(ch), CHANNEL_FLAG_SUBCHANNELS)
    THEN [ ret |-> 0, parent |-> parent, subchannels |-> subchannels ]
    ELSE [ ret |-> 1,
           parent |-> [ parent EXCEPT ![subchannel] = ch ],
           subchannels |-> [ subchannels EXCEPT ![ch] = ar_insert(@, subchannel) ] ]

\* what channel_add_subchannel(ch, subchannel) returns and leaves behind
add_subchannel(ch, subchannel) ==
    IF ~BitTest(ch_getflags(ch), CHANNEL_FLAG_SUBCHANNELS)
    THEN [ ret |-> 0, parent |-> parent, subchannels |-> subchannels ]
    ELSE LET r == IF parent[subchannel] # NULL
                  THEN remove_subchannel(parent[subchannel], subchannel)
                  ELSE [ ret |-> 0, parent |-> parent, subchannels |-> subchannels ]
         IN  [ ret |-> 1,
               parent |-> [ r.parent EXCEPT ![subchannel] = ch ],
               subchannels |-> [ r.subchannels EXCEPT ![ch] = ar_insert(@, subchannel) ] ]

channel_add_subchannel(ch, subchannel) ==
    LET r == add_subchannel(ch, subchannel) IN
    /\ parent' = r.parent
    /\ subchannels' = r.subchannels
    /\ last' = [ Call("channel_add_subchannel", ch, subchannel, r.ret)
                    EXCEPT !.was = parent[subchannel] ]
    /\ UNCHANGED << chanVars, memberVars, playerVars, privVars, wire >>

(* ------------------------------------------------------------ destruction *)
\* destroy_channel(chan): the three arrays of chan are emptied and freed and
\* chan is freed.  Nothing outside chan is written: not the in_chan of its
\* members, not the parent of its subchannels, not the subchannel array of
\* its own parent.
destroy_channel(chan) ==
    /\ freed' = freed \cup { chan }
    /\ players' = [ players EXCEPT ![chan] = << >> ]
    /\ pl_privileges' = [ pl_privileges EXCEPT ![chan] = << >> ]
    /\ subchannels' = [ subchannels EXCEPT ![chan] = << >> ]
    /\ last' = Call("destroy_channel", chan, NULL, 1)
    /\ UNCHANGED << nchans, flags, max_slots, parent, in_chan, playerVars, db_calls, wire >>

(* -------------------------------------------------------------- password *)
\* what a call that never returns is logged with: the recursion of ch_getpass
\* along parent references that form a cycle has no end
NO_RETURN == -1

\* ch_getpass(ch), entered after hops parent links have been followed: the
\* channel whose password buffer is returned (NULL for none) and the links
\* followed in all.  A chain of more links than there are channels is a cycle.
RECURSIVE ch_getpass_from(_, _)

\* ch_getpass with the channel's own flag tested before its parent is looked at
ch_getpass_own_first(ch, hops) ==
    IF BitTest(flags[ch], CHANNEL_FLAG_PASSWORD)
    THEN [ ret |-> ch, hops |-> hops ]
    ELSE IF parent[ch] # NULL
    THEN IF hops >= nchans
         THEN [ ret |-> NO_RETURN, hops |-> hops ]
         ELSE ch_getpass_from(parent[ch], hops + 1)
    ELSE [ ret |-> NULL, hops |-> hops ]

ch_getpass_from(ch, hops) ==
    IF parent[ch] # NULL
    THEN IF hops >= nchans
         THEN [ ret |-> NO_RETURN, hops |-> hops ]
         ELSE ch_getpass_from(parent[ch], hops + 1)
    ELSE IF BitTest(flags[ch], CHANNEL_FLAG_PASSWORD)
    THEN [ ret |-> ch, hops |-> hops ]
    ELSE [ ret |-> NULL, hops |-> hops ]

ch_getpass(ch) ==
    /\ last' = Call("ch_getpass", ch, NULL, ch_getpass_from(ch, 0).ret)
    /\ UNCHANGED << chanVars, treeVars, memberVars, playerVars, privVars, wire >>

(* ------------------------------------------------------------ membership *)
ch_isfull(ch) ==
    IF BitTest(flags[ch], CHANNEL_FLAG_DEFAULT)
    THEN Len(players[ch]) = SIZE_MAX
    ELSE Len(players[ch]) >= max_slots[ch]

\* add_player_to_channel with the back-reference written before the tests
add_player_backref_first(ch, pl) ==
    IF ch_isfull(ch)
    THEN [ ret |-> 0, players |-> players, in_chan |-> [ in_chan EXCEPT ![pl] = ch ] ]
    ELSE IF ar_insert_ok(players[ch], max_slots[ch])
    THEN [ ret |-> 1,
           players |-> [ players EXCEPT ![ch] = ar_insert(@, pl) ],
           in_chan |-> [ in_chan EXCEPT ![pl] = ch ] ]
    ELSE [ ret |-> 0, players |-> players, in_chan |-> [ in_chan EXCEPT ![pl] = ch ] ]

\* what add_player_to_channel(ch, pl) returns and leaves behind
add_player(ch, pl) ==
    IF ch_isfull(ch)
    THEN [ ret |-> 0, players |-> players, in_chan |-> in_chan ]
    ELSE IF ar_insert_ok(players[ch], max_slots[ch])
    THEN [ ret |-> 1,
           players |-> [ players EXCEPT ![ch] = ar_insert(@, pl) ],
           in_chan |-> [ in_chan EXCEPT ![pl] = ch ] ]
    ELSE [ ret |-> 0, players |-> players, in_chan |-> in_chan ]

add_player_to_channel(ch, pl) ==
    LET r == add_player(ch, pl) IN
    /\ players' = r.players
    /\ in_chan' = r.in_chan
    /\ last' = Call("add_player_to_channel", ch, pl, r.ret)
    /\ UNCHANGED << chanVars, treeVars, playerVars, privVars, wire >>

(* --------------------------------------------------- privilege resolution *)
\* the channel a privilege of ch is stored on
priv_owner(ch) == IF parent[ch] # NULL THEN parent[ch] ELSE ch

\* the loop's test without its second branch: records of unregistered
\* players are never found again
priv_matches_reg_only(tmp_priv, pl) ==
    tmp_priv.reg = PL_CH_PRIV_REGISTERED /\ tmp_priv.pl_or_reg = reg[pl]

\* the test of the ar_each loop: does the record tmp_priv stand for player pl
priv_matches(tmp_priv, pl) ==
    \/ tmp_priv.reg = PL_CH_PRIV_REGISTERED /\ tmp_priv.pl_or_reg = reg[pl]
    \/ tmp_priv.reg = PL_CH_PRIV_UNREGISTERED /\ tmp_priv.pl_or_reg = pl

\* slots of the array a holding a record that matches pl
priv_hits(a, pl) == { i \in 1..Len(a) : priv_matches(a[i], pl) }

Min(S) == CHOOSE x \in S : \A y \in S : x <= y

\* the record get_player_channel_privilege builds when the loop finds none
new_priv(pl, tmp_ch) ==
    IF BitTest(global_flags[pl], GLOBAL_FLAG_REGISTERED)
    THEN [ ch |-> tmp_ch, reg |-> PL_CH_PRIV_REGISTERED, pl_or_reg |-> reg[pl] ]
    ELSE [ ch |-> tmp_ch, reg |-> PL_CH_PRIV_UNREGISTERED, pl_or_reg |-> pl ]

\* is db_add_pl_chan_priv called for a record new_priv(pl, tmp_ch)
priv_persisted(pl, tmp_ch) ==
    /\ BitTest(global_flags[pl], GLOBAL_FLAG_REGISTERED)
    /\ ~BitTest(flags[tmp_ch], CHANNEL_FLAG_UNREGISTERED)

\* get_player_channel_privilege with the record put into the owner's array
\* before the hook is called
get_privilege_insert_first(pl, ch) ==
    LET tmp_ch == IF parent[ch] # NULL THEN parent[ch] ELSE ch
        a == pl_privileges[tmp_ch]
        hits == { i \in 1..Len(a) :
                    \/ a[i].reg = PL_CH_PRIV_REGISTERED /\ a[i].pl_or_reg = reg[pl]
                    \/ a[i].reg = PL_CH_PRIV_UNREGISTERED /\ a[i].pl_or_reg = pl }
        registered == BitTest(global_flags[pl], GLOBAL_FLAG_REGISTERED)
        tmp_priv == IF registered
                    THEN [ ch |-> tmp_ch, reg |-> PL_CH_PRIV_REGISTERED, pl_or_reg |-> reg[pl] ]
                    ELSE [ ch |-> tmp_ch, reg |-> PL_CH_PRIV_UNREGISTERED, pl_or_reg |-> pl ]
        b == ar_insert(a, tmp_priv)
        call == [ priv |-> tmp_priv, inserted |-> ar_has(b, tmp_priv) ]
    IN  IF hits # {}
        THEN [ priv |-> << tmp_ch, CHOOSE i \in hits : \A j \in hits : i <= j >>,
               pl_privileges |-> pl_privileges,
               db_calls |-> db_calls ]
        ELSE [ priv |-> << tmp_ch, Len(a) + 1 >>,
               pl_privileges |-> [ pl_privileges EXCEPT ![tmp_ch] = b ],
               db_calls |-> IF registered /\ ~BitTest(flags[tmp_ch], CHANNEL_FLAG_UNREGISTERED)
                            THEN [ db_calls EXCEPT ![tmp_ch] = Append(@, call) ]
                            ELSE db_calls ]

\* what get_player_channel_privilege(pl, ch) returns (the owner and the slot of
\* the record) and leaves behind.  A call of the hook is logged with the
\* record it is given and whether the owner's array holds the record then.
get_privilege(pl, ch) ==
    LET tmp_ch == priv_owner(ch)
        a == pl_privileges[tmp_ch]
        hits == priv_hits(a, pl)
        tmp_priv == new_priv(pl, tmp_ch)
        call == [ priv |-> tmp_priv, inserted |-> ar_has(a, tmp_priv) ]
    IN  IF hits # {}
        THEN [ priv |-> << tmp_ch, Min(hits) >>,
               pl_privileges |-> pl_privileges,
               db_calls |-> db_calls ]
        ELSE [ priv |-> << tmp_ch, Len(a) + 1 >>,
               pl_privileges |-> [ pl_privileges EXCEPT ![tmp_ch] = ar_insert(a, tmp_priv) ],
               db_calls |-> IF priv_persisted(pl, tmp_ch)
                            THEN [ db_calls EXCEPT ![tmp_ch] = Append(@, call) ]
                            ELSE db_calls ]

get_player_channel_privilege(pl, ch) ==
    LET r == get_privilege(pl, ch) IN
    /\ pl_privileges' = r.pl_privileges
    /\ db_calls' = r.db_calls
    /\ last' = [ Call("get_player_channel_privilege", ch, pl, 1) EXCEPT !.priv = r.priv ]
    /\ UNCHANGED << chanVars, treeVars, memberVars, playerVars, wire >>

\* get_player_channel_privilege undoing the grant when the hook fails: the
\* record is not inserted and NULL is returned
get_privilege_rollback(pl, ch, db_ok) ==
    LET tmp_ch == IF parent[ch] # NULL THEN parent[ch] ELSE ch
        a == pl_privileges[tmp_ch]
        hits == priv_hits(a, pl)
        tmp_priv == new_priv(pl, tmp_ch)
        call == [ priv |-> tmp_priv, inserted |-> ar_has(a, tmp_priv), ok |-> db_ok ]
    IN  IF hits # {}
        THEN [ priv |-> << tmp_ch, Min(hits) >>,
               pl_privileges |-> pl_privileges,
               db_calls |-> db_calls ]
        ELSE IF priv_persisted(pl, tmp_ch)
        THEN IF db_ok
             THEN [ priv |-> << tmp_ch, Len(a) + 1 >>,
                    pl_privileges |-> [ pl_privileges EXCEPT ![tmp_ch] = ar_insert(a, tmp_priv) ],
                    db_calls |-> [ db_calls EXCEPT ![tmp_ch] = Append(@, call) ] ]
             ELSE [ priv |-> << NULL, 0 >>,
                    pl_privileges |-> pl_privileges,
                    db_calls |-> [ db_calls EXCEPT ![tmp_ch] = Append(@, call) ] ]
        ELSE [ priv |-> << tmp_ch, Len(a) + 1 >>,
               pl_privileges |-> [ pl_privileges EXCEPT ![tmp_ch] = ar_insert(a, tmp_priv) ],
               db_calls |-> db_calls ]

\* get_player_channel_privilege(pl, ch) when db_add_pl_chan_priv, if called,
\* reports success (db_ok) or failure: the value the hook returns is not
\* read.  The call of the hook is logged with what it reported.
get_privilege_db(pl, ch, db_ok) ==
    LET tmp_ch == priv_owner(ch)
        a == pl_privileges[tmp_ch]
        hits == priv_hits(a, pl)
        tmp_priv == new_priv(pl, tmp_ch)
        call == [ priv |-> tmp_priv, inserted |-> ar_has(a, tmp_priv), ok |-> db_ok ]
    IN  IF hits # {}
        THEN [ priv |-> << tmp_ch, Min(hits) >>,
               pl_privileges |-> pl_privileges,
               db_calls |-> db_calls ]
        ELSE [ priv |-> << tmp_ch, Len(a) + 1 >>,
               pl_privileges |-> [ pl_privileges EXCEPT ![tmp_ch] = ar_insert(a, tmp_priv) ],
               db_calls |-> IF priv_persisted(pl, tmp_ch)
                            THEN [ db_calls EXCEPT ![tmp_ch] = Append(@, call) ]
                            ELSE db_calls ]

get_player_channel_privilege_db(pl, ch, db_ok) ==
    LET r == get_privilege_db(pl, ch, db_ok) IN
    /\ pl_privileges' = r.pl_privileges
    /\ db_calls' = r.db_calls
    /\ last' = [ Call("get_player_channel_privilege", ch, pl,
                       IF r.priv[1] # NULL THEN 1 ELSE 0)
                    EXCEPT !.priv = r.priv ]
    /\ UNCHANGED << chanVars, treeVars, memberVars, playerVars, wire >>

\* the player logs into the account r, or (r = NULL) becomes anonymous again:
\* the two fields get_player_channel_privilege reads are rewritten
player_set_registration(pl, r) ==
    /\ global_flags' = [ global_flags EXCEPT
                            ![pl] = IF r # NULL THEN GLOBAL_FLAG_REGISTERED ELSE 0 ]
    /\ reg' = [ reg EXCEPT ![pl] = r ]
    /\ last' = Call("player_set_registration", NULL, pl, 1)
    /\ UNCHANGED << chanVars, treeVars, memberVars, privVars, wire >>

(* ------------------------------------------------------------ wire codec *)
\* A 32-bit word is held as its two 16-bit halves: 0xFFFFFFFF does not fit
\* TLC's integers.
U32(hi, lo) == [ hi |-> hi, lo |-> lo ]
NO_PARENT_ID == U32(65535, 65535)
ZERO_ID == U32(0, 0)

wu16(v) == << (v \div 256) % 256, v % 256 >>
wu32(v) == wu16(v.hi) \o wu16(v.lo)

\* the byte at offset off of the block mem; past its end the model reads 0
byte_at(mem, off) == IF off < Len(mem) THEN mem[off + 1] ELSE 0
ru16(mem, off) == byte_at(mem, off) * 256 + byte_at(mem, off + 1)
ru32(mem, off) == U32(ru16(mem, off), ru16(mem, off + 2))

\* an int passed as a size_t: a negative one wraps to a huge count
as_size(n) == IF n < 0 THEN SIZE_MAX ELSE n

\* strndup(mem + off, n): the bytes up to the first NUL, at most n of them
RECURSIVE strndup(_, _, _)
strndup(mem, off, n) ==
    IF n = 0 \/ byte_at(mem, off) = 0
    THEN << >>
    ELSE << byte_at(mem, off) >> \o strndup(mem, off + 1, n - 1)

strlen(str) == Len(str)

\* strcpy(ptr, str): the bytes of str and the terminating NUL
strcpy(str) == str \o << 0 >>

\* channel_to_data_size with one terminating NUL left out
channel_to_data_size_short(ch) ==
    4 + 2 + 2 + 4 + 2 + 2
      + strlen(ch.name) + 1
      + strlen(ch.topic) + 1
      + strlen(ch.desc)

channel_to_data_size(ch) ==
    4 + 2 + 2 + 4 + 2 + 2
      + strlen(ch.name) + 1
      + strlen(ch.topic) + 1
      + strlen(ch.desc) + 1

\* channel_to_data(ch, data): the bytes written, the value returned and
\* whether the assertion on the write pointer holds.  ch.parent is << >> for
\* NULL and << id >> for a parent whose id is id.
channel_to_data(ch) ==
    LET size == 4 + 2 + 2 + 4 + 2 + 2
                  + strlen(ch.name) + 1
                  + strlen(ch.topic) + 1
                  + strlen(ch.desc) + 1
        data == wu32(ch.id) \o wu16(ch.flags) \o wu16(ch.codec)
                  \o (IF ch.parent = << >> THEN wu32(NO_PARENT_ID) ELSE wu32(ch.parent[1]))
                  \o wu16(ch.sort_order) \o wu16(ch.max_slots)
                  \o strcpy(ch.name) \o strcpy(ch.topic) \o strcpy(ch.desc)
    IN  [ data |-> data, ret |-> size, assertion |-> (Len(data) = size) ]

\* channel_from_data(data, len, dst): the channel built and the value
\* returned.  new_channel gives the channel no id and no parent; calloc
\* leaves id and parent_id zero.
channel_from_data(data, len) ==
    LET fl == ru16(data, 4)
        codec == ru16(data, 6)
        parent_id == ru32(data, 8)
        sort_order == ru16(data, 12)
        max_users == ru16(data, 14)
        p0 == 16
        name == strndup(data, p0, as_size(len - p0 - 3))
        p1 == p0 + strlen(name) + 1
        topic == strndup(data, p1, as_size(len - p1 - 2))
        p2 == p1 + strlen(topic) + 1
        desc == strndup(data, p2, as_size(len - p2 - 1))
        p3 == p2 + strlen(desc) + 1
    IN  [ dst |-> [ id |-> ZERO_ID, flags |-> fl, codec |-> codec,
                    parent |-> << >>,
                    parent_id |-> IF parent_id # NO_PARENT_ID THEN parent_id ELSE ZERO_ID,
                    sort_order |-> sort_order, max_slots |-> max_users,
                    name |-> name, topic |-> topic, desc |-> desc ],
          ret |-> p3 ]

\* the codec's inputs
WireIds == { ZERO_ID, U32(0, 5), U32(258, 772) }
WireParents == { << >>, << ZERO_ID >>, << U32(0, 5) >> }
WireFlags == { CHANNEL_FLAG_SUBCHANNELS, 258 }
WireCodecs == { 1, 1027 }
WireSortOrders == { 0, 513 }
WireMaxUsers == { 10, 65535 }
WireChars == { 76, 255 }
WireStrings == UNION { [ 1..n -> WireChars ] : n \in 0..MaxStrLen }

WireChannels ==
    [ id : WireIds, flags : WireFlags, codec : WireCodecs, parent : WireParents,
      sort_order : WireSortOrders, max_slots : WireMaxUsers,
      name : WireStrings, topic : WireStrings, desc : WireStrings ]

NoWire == [ stage |-> "none" ]

ChannelToData ==
    /\ wire.stage = "channel"
    /\ LET r == channel_to_data(wire.ch) IN
         wire' = [ stage |-> "encoded", ch |-> wire.ch, data |-> r.data,
                   size |-> channel_to_data_size(wire.ch),
                   written |-> r.ret, assertion |-> r.assertion ]
    /\ last' = Call("channel_to_data", NULL, NULL, 1)
    /\ UNCHANGED << chanVars, treeVars, memberVars, playerVars, privVars >>

ChannelFromData ==
    /\ wire.stage = "encoded"
    /\ LET r == channel_from_data(wire.data, wire.size) IN
         wire' = [ stage |-> "decoded", ch |-> wire.ch, data |-> wire.data,
                   size |-> wire.size, written |-> wire.written,
                   assertion |-> wire.assertion, dst |-> r.dst, read |-> r.ret ]
    /\ last' = Call("channel_from_data", NULL, NULL, 1)
    /\ UNCHANGED << chanVars, treeVars, memberVars, playerVars, privVars >>

\* buffers handed to channel_from_data as they come from the network: the
\* 16 bytes of the fixed fields, then any bytes.  The declared length is the
\* length of the buffer.  With fewer than 3 bytes after the fixed fields the
\* count given to strndup is negative and the reads leave the buffer; those
\* buffers are not drawn, and with 3 or more every read of strndup stays
\* below len - 1.
RawParentIds == { NO_PARENT_ID, ZERO_ID, U32(0, 5) }
RawBytes == { 0 } \cup WireChars
RawTails == UNION { [ 1..n -> RawBytes ] : n \in 3..MaxTailLen }

RawHeader(parent_id) ==
    wu32(U32(0, 7)) \o wu16(CHANNEL_FLAG_SUBCHANNELS) \o wu16(1)
      \o wu32(parent_id) \o wu16(0) \o wu16(10)

RawBuffers == { RawHeader(pid) \o tail : pid \in RawParentIds, tail \in RawTails }

ChannelFromDataRaw ==
    /\ wire.stage = "buffer"
    /\ LET r == channel_from_data(wire.data, wire.len) IN
         wire' = [ stage |-> "parsed", data |-> wire.data, len |-> wire.len,
                   dst |-> r.dst, read |-> r.ret ]
    /\ last' = Call("channel_from_data", NULL, NULL, 1)
    /\ UNCHANGED << chanVars, treeVars, memberVars, playerVars, privVars >>

(* -------------------------------------------------------- specifications *)
\* no channel allocated yet; the players' registration and the codec's input
\* are what the specification draws
InitState(gf, rg, w) ==
    /\ nchans = 0
    /\ flags = [ c \in Chan |-> 0 ]
    /\ max_slots = [ c \in Chan |-> 0 ]
    /\ freed = { }
    /\ parent = [ c \in Chan |-> NULL ]
    /\ subchannels = [ c \in Chan |-> << >> ]
    /\ players = [ c \in Chan |-> << >> ]
    /\ pl_privileges = [ c \in Chan |-> << >> ]
    /\ in_chan = [ p \in Player |-> NULL ]
    /\ global_flags = gf
    /\ reg = rg
    /\ db_calls = [ c \in Chan |-> << >> ]
    /\ last = NoCall
    /\ wire = w

Unregistered == [ p \in Player |-> 0 ]
NoAccount == [ p \in Player |-> NULL ]

Init == InitState(Unregistered, NoAccount, NoWire)

\* each player is unregistered, or registered with an account handle; two
\* players may share a handle
InitPriv ==
    \E gf \in [ Player -> { 0, GLOBAL_FLAG_REGISTERED } ], rg \in [ Player -> Reg \cup { NULL } ] :
        /\ \A p \in Player : BitTest(gf[p], GLOBAL_FLAG_REGISTERED) <=> rg[p] # NULL
        /\ InitState(gf, rg, NoWire)

NewChannel == \E fl \in FlagChoices : new_channel(fl, MaxUsers)

AddSubchannel == \E ch \in Live, sub \in Live : channel_add_subchannel(ch, sub)

RemoveSubchannel ==
    \E ch \in Live \cup { NULL }, sub \in Live : channel_remove_subchannel(ch, sub)

GetPrivilege == \E pl \in Player, ch \in Live : get_player_channel_privilege(pl, ch)

\* the hierarchy alone
Next ==
    \/ NewChannel
    \/ AddSubchannel
    \/ RemoveSubchannel

Spec == Init /\ [][Next]_vars

\* the hierarchy and the privileges stored on it
NewChannelPriv == nchans < NumPrivChans /\ NewChannel

NextPriv ==
    \/ NewChannelPriv
    \/ AddSubchannel
    \/ RemoveSubchannel
    \/ GetPrivilege

SpecPriv == InitPriv /\ [][NextPriv]_vars

\* the channels and their members
NewChannelMember ==
    /\ nchans < NumMemberChans
    /\ \E fl \in MemberFlagChoices, max_users \in 0..MaxUsers : new_channel(fl, max_users)

AddPlayer == \E ch \in Live, pl \in Player : add_player_to_channel(ch, pl)

NextMember ==
    \/ NewChannelMember
    \/ AddPlayer

SpecMember == Init /\ [][NextMember]_vars

\* the codec: a channel is drawn, encoded, and the bytes decoded
InitCodec ==
    \E ch \in WireChannels :
        InitState(Unregistered, NoAccount, [ stage |-> "channel", ch |-> ch ])

NextCodec ==
    \/ ChannelToData
    \/ ChannelFromData

SpecCodec == InitCodec /\ [][NextCodec]_vars

\* the hierarchy and the passwords read through it
NewChannelPass == \E fl \in PassFlagChoices : new_channel(fl, MaxUsers)

ChGetpass == \E ch \in Live : ch_getpass(ch)

NextPass ==
    \/ NewChannelPass
    \/ AddSubchannel
    \/ RemoveSubchannel
    \/ ChGetpass

SpecPass == Init /\ [][NextPass]_vars

\* the privileges, with a hook that may fail
GetPrivilegeDb ==
    \E pl \in Player, ch \in Live, db_ok \in BOOLEAN :
        get_player_channel_privilege_db(pl, ch, db_ok)

NextHook ==
    \/ NewChannelPriv
    \/ AddSubchannel
    \/ GetPrivilegeDb

SpecHook == InitPriv /\ [][NextHook]_vars

\* the privileges of players whose registration changes between the calls
SetRegistration ==
    \E pl \in Player, r \in Reg \cup { NULL } :
        /\ reg[pl] # r
        /\ player_set_registration(pl, r)

NextReg ==
    \/ NewChannelPriv
    \/ GetPrivilege
    \/ SetRegistration

SpecReg == InitPriv /\ [][NextReg]_vars

\* the hierarchy, the members and destroy_channel.  Calls are made on channels
\* that have not been freed; an attach that would read a freed channel
\* (through the parent of ch in ch_getflags, or through the parent of the child
\* in channel_remove_subchannel) has no defined outcome and is left out.
NewChannelDestroy ==
    /\ nchans < NumDestroyChans
    /\ \E fl \in MemberFlagChoices : new_channel(fl, MaxUsers)

AddSubchannelAlive ==
    \E ch \in Alive, sub \in Alive :
        /\ parent[ch] \notin freed
        /\ parent[sub] \notin freed
        /\ channel_add_subchannel(ch, sub)

RemoveSubchannelAlive ==
    \E ch \in Alive, sub \in Alive : channel_remove_subchannel(ch, sub)

AddPlayerAlive == \E ch \in Alive, pl \in Player : add_player_to_channel(ch, pl)

DestroyChannel == \E chan \in Alive : destroy_channel(chan)

NextDestroy ==
    \/ NewChannelDestroy
    \/ AddSubchannelAlive
    \/ RemoveSubchannelAlive
    \/ AddPlayerAlive
    \/ DestroyChannel

SpecDestroy == Init /\ [][NextDestroy]_vars

\* the decoder alone, on buffers as they come
InitDecode ==
    \E data \in RawBuffers :
        InitState(Unregistered, NoAccount,
                  [ stage |-> "buffer", data |-> data, len |-> Len(data) ])

NextDecode == ChannelFromDataRaw

SpecDecode == InitDecode /\ [][NextDecode]_vars

(* ---------------------------------------------------------------- claims *)
\* a flag word with SUBCHANNELS and DEFAULT cleared
Inherited(f) == BitClear(BitClear(f, CHANNEL_FLAG_SUBCHANNELS), CHANNEL_FLAG_DEFAULT)

\* C1: every channel that has a parent has a parent without a parent, and has
\* no subchannels of its own (the tree is at most two levels deep).
C1_DepthInvariant ==
    \A c \in Live :
        parent[c] # NULL => parent[parent[c]] = NULL /\ subchannels[c] = << >>

\* C9: the effective flags of a channel with a parent are the effective flags
\* of its parent with SUBCHANNELS and DEFAULT cleared; those of a channel
\* without a parent are its stored flags.
C9_FlagInheritance ==
    \A s \in Live :
        IF parent[s] # NULL
        THEN ch_getflags(s) = Inherited(ch_getflags(parent[s]))
        ELSE ch_getflags(s) = flags[s]

\* C10: channel_add_subchannel on a parent that lacks SUBCHANNELS (in its
\* stored or in its effective flags) returns 0 and leaves every parent
\* reference and every subchannel array as it was.
C10_AttachNeedsFlag ==
    [][ ( /\ last'.op = "channel_add_subchannel"
          /\ \/ ~BitTest(flags[last'.ch], CHANNEL_FLAG_SUBCHANNELS)
             \/ ~BitTest(ch_getflags(last'.ch), CHANNEL_FLAG_SUBCHANNELS) )
        => ( /\ last'.ret = 0
             /\ parent' = parent
             /\ subchannels' = subchannels ) ]_vars

\* a refused attach of a child that sits under another parent, and stays there
C10_Witness ==
    /\ last.op = "channel_add_subchannel"
    /\ last.ret = 0
    /\ ~BitTest(flags[last.ch], CHANNEL_FLAG_SUBCHANNELS)
    /\ parent[last.arg] # NULL
    /\ parent[last.arg] # last.ch
    /\ ar_has(subchannels[parent[last.arg]], last.arg)
    /\ subchannels[last.ch] = << >>

IsGetPrivilege(call) == call.op = "get_player_channel_privilege"

\* the privilege record a call returned
Returned(call) == pl_privileges[call.priv[1]][call.priv[2]]

\* C6: a get_privilege call that directly follows a get_privilege call for the
\* same player and channel returns the same record and changes no privilege
\* array; and no channel's privilege array ever holds two records for one
\* player, however many calls are made.
C6_PrivilegeIdempotent ==
    /\ [] ( \A o \in Live, pl \in Player :
               Cardinality(priv_hits(pl_privileges[o], pl)) <= 1 )
    /\ [][ ( /\ IsGetPrivilege(last) /\ IsGetPrivilege(last')
              /\ last'.ch = last.ch /\ last'.arg = last.arg )
            => ( /\ last'.priv = last.priv
                 /\ pl_privileges' = pl_privileges ) ]_vars
    /\ [][ IsGetPrivilege(last')
            => \A o \in Live :
                 /\ Len(pl_privileges'[o]) <= Len(pl_privileges[o]) + 1
                 /\ o # priv_owner(last'.ch) => pl_privileges'[o] = pl_privileges[o] ]_vars

\* a call that found the record an earlier call had created: the record
\* stands for the player and is not the newest of its array
C6_Witness ==
    /\ IsGetPrivilege(last)
    /\ last.priv[2] < Len(pl_privileges[last.priv[1]])
    /\ priv_matches(Returned(last), last.arg)

\* C7: only channels without a parent hold privilege records.
C7_PrivilegesOnTopOnly ==
    \A c \in Live : parent[c] # NULL => pl_privileges[c] = << >>

\* C8: db_add_pl_chan_priv is called by a get_privilege call exactly when no
\* record matched, the player is registered and the owner is not flagged
\* UNREGISTERED; the record it is given is not yet in the owner's array and
\* is there once the call returns; no record is given to it twice.
C8_PersistenceHook ==
    /\ [] ( \A o \in Live :
               /\ \A i \in 1..Len(db_calls[o]) :
                     /\ ~db_calls[o][i].inserted
                     /\ db_calls[o][i].priv.reg = PL_CH_PRIV_REGISTERED
                     /\ db_calls[o][i].priv.ch = o
                     /\ ar_count(pl_privileges[o], db_calls[o][i].priv) = 1
                     /\ \A j \in 1..Len(db_calls[o]) :
                           db_calls[o][j].priv = db_calls[o][i].priv => j = i
               /\ db_calls[o] # << >> => ~BitTest(flags[o], CHANNEL_FLAG_UNREGISTERED) )
    /\ [][ IsGetPrivilege(last')
            => LET o == priv_owner(last'.ch)
                   pl == last'.arg
                   due == /\ priv_hits(pl_privileges[o], pl) = {}
                          /\ BitTest(global_flags[pl], GLOBAL_FLAG_REGISTERED)
                          /\ ~BitTest(flags[o], CHANNEL_FLAG_UNREGISTERED)
               IN  /\ due => /\ Len(db_calls'[o]) = Len(db_calls[o]) + 1
                             /\ db_calls'[o][Len(db_calls'[o])].priv = Returned(last)'
                   /\ ~due => db_calls' = db_calls
                   /\ \A c \in Live : c # o => db_calls'[c] = db_calls[c] ]_vars

\* the hook has been called for a record asked for through a subchannel, and
\* the same array holds a session-only record of an unregistered player
C8_Witness ==
    /\ IsGetPrivilege(last)
    /\ parent[last.ch] # NULL
    /\ parent[last.ch] # last.ch
    /\ \E i \in 1..Len(db_calls[parent[last.ch]]) :
          db_calls[parent[last.ch]][i].priv = Returned(last)
    /\ \E i \in 1..Len(pl_privileges[parent[last.ch]]) :
          pl_privileges[parent[last.ch]][i].reg = PL_CH_PRIV_UNREGISTERED

IsAddPlayer(call) == call.op = "add_player_to_channel"

\* C2: a channel without DEFAULT never has more members than its max_users;
\* add_player_to_channel on such a channel with max_users members returns 0
\* and leaves the members and the player's current channel as they were.
C2_Capacity ==
    /\ [] ( \A c \in Live :
               ~BitTest(flags[c], CHANNEL_FLAG_DEFAULT) => Len(players[c]) <= max_slots[c] )
    /\ [][ ( /\ IsAddPlayer(last')
              /\ ~BitTest(flags[last'.ch], CHANNEL_FLAG_DEFAULT)
              /\ Len(players[last'.ch]) = max_slots[last'.ch] )
            => ( /\ last'.ret = 0
                 /\ players' = players
                 /\ in_chan' = in_chan ) ]_vars

\* the player of a refused add is a member of another channel and still
\* refers to it; the refusing channel holds max_users >= 1 members
C2_Witness ==
    /\ IsAddPlayer(last)
    /\ last.ret = 0
    /\ ~BitTest(flags[last.ch], CHANNEL_FLAG_DEFAULT)
    /\ max_slots[last.ch] >= 1
    /\ Len(players[last.ch]) = max_slots[last.ch]
    /\ ~ar_has(players[last.ch], last.arg)
    /\ in_chan[last.arg] \notin { NULL, last.ch }

\* C3: add_player_to_channel succeeds whenever ch_isfull is false, and then
\* the player is a member and refers to the channel; a DEFAULT channel is
\* never full, whatever max_users it was created with.
C3_AddSucceedsUnlessFull ==
    /\ [] ( \A c \in Live : BitTest(flags[c], CHANNEL_FLAG_DEFAULT) => ~ch_isfull(c) )
    /\ [][ ( IsAddPlayer(last') /\ ~ch_isfull(last'.ch) )
            => ( /\ last'.ret = 1
                 /\ ar_has(players'[last'.ch], last'.arg)
                 /\ in_chan'[last'.arg] = last'.ch ) ]_vars

\* the parent id channel_to_data wrote for a channel
EncodedParentId(ch) == IF ch.parent = << >> THEN NO_PARENT_ID ELSE ch.parent[1]

\* C4: decoding the bytes of an encoded channel, with len its size, gives a
\* channel with the same id, flags, codec, sort_order, max_users, name, topic
\* and desc, whose parent_id is the encoded parent id, and returns the size.
C4_RoundTrip ==
    wire.stage = "decoded" =>
        /\ wire.dst.id = wire.ch.id
        /\ wire.dst.flags = wire.ch.flags
        /\ wire.dst.codec = wire.ch.codec
        /\ wire.dst.sort_order = wire.ch.sort_order
        /\ wire.dst.max_slots = wire.ch.max_slots
        /\ wire.dst.name = wire.ch.name
        /\ wire.dst.topic = wire.ch.topic
        /\ wire.dst.desc = wire.ch.desc
        /\ wire.dst.parent_id = EncodedParentId(wire.ch)
        /\ wire.read = wire.size

\* C5: channel_to_data_size is the number of bytes channel_to_data writes and
\* the value it returns, 16 bytes and the three strings with their NULs, and
\* the assertion on the write pointer holds.
C5_SizeContract ==
    wire.stage # "channel" /\ wire.stage # "none" =>
        /\ wire.size = Len(wire.data)
        /\ wire.written = Len(wire.data)
        /\ wire.size = 16 + (Len(wire.ch.name) + 1) + (Len(wire.ch.topic) + 1)
                           + (Len(wire.ch.desc) + 1)
        /\ wire.assertion

\* an encoded channel with a parent and three strings of different lengths
C5_Witness ==
    /\ wire.stage = "encoded"
    /\ wire.ch.parent # << >>
    /\ Len(wire.ch.name) = 2
    /\ Len(wire.ch.topic) = 0
    /\ Len(wire.ch.desc) = 1
    /\ Len(wire.data) = 22

IsRemoveSubchannel(call) == call.op = "channel_remove_subchannel"

\* C11: channel_remove_subchannel(ch, subchannel) returns 0 and leaves every
\* parent reference and every subchannel array as it was when ch is not the
\* child's parent or ch is NULL; otherwise it returns 1, the child is no
\* longer in ch's subchannel array, the child's parent is NULL, and no other
\* parent reference or subchannel entry has changed.
C11_DetachErrorHandling ==
    [][ IsRemoveSubchannel(last')
        => LET ch == last'.ch
               sub == last'.arg
           IN  IF ch = NULL \/ parent[sub] # ch
               THEN /\ last'.ret = 0
                    /\ parent' = parent
                    /\ subchannels' = subchannels
               ELSE /\ last'.ret = 1
                    /\ parent'[sub] = NULL
                    /\ ~ar_has(subchannels'[ch], sub)
                    /\ \A c \in Chan : c # sub => parent'[c] = parent[c]
                    /\ \A c \in Chan : c # ch => subchannels'[c] = subchannels[c]
                    /\ \A x \in Chan : x # sub =>
                          ar_count(subchannels'[ch], x) = ar_count(subchannels[ch], x) ]_vars

\* a detach that succeeded on a parent that keeps another subchannel
C11_Witness ==
    /\ IsRemoveSubchannel(last)
    /\ last.ret = 1
    /\ last.ch # last.arg
    /\ parent[last.arg] = NULL
    /\ subchannels[last.ch] # << >>
    /\ ~ar_has(subchannels[last.ch], last.arg)

IsAddSubchannel(call) == call.op = "channel_add_subchannel"

\* C18: after a channel_add_subchannel call that returned 1 for a child that
\* had a parent, the child's parent is the new parent, the new parent's
\* subchannel array holds the child exactly once and no other channel's array
\* holds it; when the new parent is the parent the child had, the parent
\* references and the elements of that array are what they were.
C18_AttachReparents ==
    [][ ( IsAddSubchannel(last') /\ last'.ret = 1 /\ parent[last'.arg] # NULL )
        => LET ch == last'.ch
               sub == last'.arg
           IN  /\ parent'[sub] = ch
               /\ ar_count(subchannels'[ch], sub) = 1
               /\ \A c \in Chan : c # ch => ~ar_has(subchannels'[c], sub)
               /\ parent[sub] = ch =>
                     /\ parent' = parent
                     /\ ar_set(subchannels'[ch]) = ar_set(subchannels[ch])
                     /\ Len(subchannels'[ch]) = Len(subchannels[ch]) ]_vars

\* a child moved from one parent to another: the parent it had keeps a
\* subchannel, and the new parent had one before the child came
C18_Witness ==
    /\ IsAddSubchannel(last)
    /\ last.ret = 1
    /\ last.was \notin { NULL, last.ch, last.arg }
    /\ last.ch # last.arg
    /\ parent[last.arg] = last.ch
    /\ ~ar_has(subchannels[last.was], last.arg)
    /\ Len(subchannels[last.ch]) = 1

\* the channels reached from the channels of S along parent references
RECURSIVE Up(_)
Up(S) ==
    LET T == S \cup { parent[x] : x \in { y \in S : parent[y] # NULL } }
    IN  IF T = S THEN S ELSE Up(T)

\* the password buffer ch_getpass is to return for the top-level owner o
OwnerPassword(o) == IF BitTest(flags[o], CHANNEL_FLAG_PASSWORD) THEN o ELSE NULL

IsGetpass(call) == call.op = "ch_getpass"

\* C12: for a channel whose parent references lead to a channel without a
\* parent (its top-level owner), ch_getpass returns that owner's password
\* buffer when the owner's flags carry PASSWORD and NULL when they do not,
\* whatever the flags of the channel itself; and what it returns for a channel
\* with a parent is what it returns for the parent.
C12_EffectivePassword ==
    /\ [] ( \A c \in Live :
               /\ \A o \in Up({ c }) :
                     parent[o] = NULL => ch_getpass_from(c, 0).ret = OwnerPassword(o)
               /\ parent[c] # NULL =>
                     ch_getpass_from(c, 0).ret = ch_getpass_from(parent[c], 0).ret )
    /\ [][ IsGetpass(last')
            => \A o \in Up({ last'.ch }) :
                  parent[o] = NULL => last'.ret = OwnerPassword(o) ]_vars

\* a subchannel created with PASSWORD under a parent without it: no password
C12_Witness ==
    /\ IsGetpass(last)
    /\ last.ret = NULL
    /\ BitTest(flags[last.ch], CHANNEL_FLAG_PASSWORD)
    /\ parent[last.ch] # NULL
    /\ parent[parent[last.ch]] = NULL
    /\ ~BitTest(flags[parent[last.ch]], CHANNEL_FLAG_PASSWORD)

\* C17: in every state of the hierarchy ch_getpass returns, for every channel,
\* after it has followed at most one parent reference.
C17_GetpassTerminates ==
    \A c \in Live :
        /\ ch_getpass_from(c, 0).ret # NO_RETURN
        /\ ch_getpass_from(c, 0).hops <= 1

\* the NUL bytes of data from offset off up to the declared length len
NulCount(data, off, len) ==
    Cardinality({ i \in off..(len - 1) : byte_at(data, i) = 0 })

\* C13: channel_from_data returns 0 and builds no channel when name, topic or
\* desc has no terminating NUL within the declared length, that is when the
\* bytes after the 16 of the fixed fields hold fewer than three NULs.
C13_UnterminatedFails ==
    ( wire.stage = "parsed" /\ NulCount(wire.data, 16, wire.len) < 3 )
        => wire.read = 0

\* data with its parent id field (offsets 8 to 11) holding v
WithParentField(data, v) ==
    [ i \in 1..Len(data) |-> IF i \in 9..12 THEN wu32(v)[i - 8] ELSE data[i] ]

\* C20: the channel decoded from a buffer whose parent id field is
\* 0xFFFFFFFF differs, in parent and parent_id, from the channel decoded from
\* the same buffer with parent id field 0.
C20_NoParentDistinct ==
    ( wire.stage = "parsed" /\ ru32(wire.data, 8) = NO_PARENT_ID )
        => LET other == channel_from_data(WithParentField(wire.data, ZERO_ID), wire.len).dst
           IN  << wire.dst.parent, wire.dst.parent_id >> # << other.parent, other.parent_id >>

\* C14: no player's in_chan refers to a channel destroy_channel has freed
\* (the players themselves are never freed by it).
C14_DestroyDetachesPlayers ==
    \A pl \in Player : in_chan[pl] \notin freed

\* C19: for all channels p and c that are not freed, c's parent is p exactly
\* when p's subchannel array holds c; no such channel's parent is a freed
\* channel, and no such channel's subchannel array holds a freed channel.
C19_TreeAgreement ==
    /\ \A p \in Alive, c \in Alive : parent[c] = p <=> ar_has(subchannels[p], c)
    /\ \A c \in Alive : parent[c] \notin freed
    /\ \A c \in Alive, x \in freed : ~ar_has(subchannels[c], x)

\* C15: the record a get_privilege call returns is tagged as the player is
\* registered at the call: REGISTERED with the player's account handle when
\* the player's GLOBAL_FLAG_REGISTERED is set, UNREGISTERED with the player
\* itself when it is clear.
C15_TagMatchesRegistration ==
    IsGetPrivilege(last) =>
        IF BitTest(global_flags[last.arg], GLOBAL_FLAG_REGISTERED)
        THEN /\ Returned(last).reg = PL_CH_PRIV_REGISTERED
             /\ Returned(last).pl_or_reg = reg[last.arg]
        ELSE /\ Returned(last).reg = PL_CH_PRIV_UNREGISTERED
             /\ Returned(last).pl_or_reg = last.arg

\* did the step call the hook on owner o and did the hook report failure
HookFailed(o) ==
    /\ Len(db_calls'[o]) = Len(db_calls[o]) + 1
    /\ ~db_calls'[o][Len(db_calls'[o])].ok

====
